---- MODULE Spec2Model ----
(***************************************************************************)
(* Keypair commands of python-openstackclient                              *)
(* (openstackclient/compute/v2/keypair.py): create, delete, list, show.    *)
(*                                                                         *)
(* One action per command; an action is one whole take_action() call of a  *)
(* client process.  The compute keypair service is a store of keypairs     *)
(* that persists from one invocation to the next; everything else (the log *)
(* of the calls the command made, what it wrote, how it ended) belongs to  *)
(* the process and is gone when the process exits (Exit).                  *)
(*                                                                         *)
(* Conventions                                                             *)
(*   - Python None is the value None below; a dict is a function from its  *)
(*     keys; {} is the empty function <<>>.                                *)
(*   - An option of the parser is "given" when its value is not None.      *)
(*     Option values are non-empty strings (the code tests them by         *)
(*     truthiness); file CONTENTS may be empty.                            *)
(*   - A message is the sequence of the pieces the format string is cut    *)
(*     into by its substitutions.                                          *)
(***************************************************************************)
EXTENDS Integers, Sequences, FiniteSets, TLC

VARIABLES
    store,        \* keypairs held by the compute service
    store0,       \* the store when the last invocation began
    cmd,          \* the command run: "none" (no process), "create", "delete",
                  \* "list", "show"
    parsed_args,  \* its parsed arguments
    api_version,  \* compute_client.api_version of the invocation (a string)
    env,          \* local filesystem behaviour met by the invocation
    calls,        \* the calls the command made to its collaborators, in order
    stdout,       \* texts written to sys.stdout, in order
    written,      \* files written: sequence of [path, text]
    logged,       \* names passed to LOG.error, in order
    outcome       \* how take_action ended

vars == <<store, store0, cmd, parsed_args, api_version, env, calls, stdout,
          written, logged, outcome>>

None == "<None>"

\* ------------------------------------------------------------------ bounds

\* Longest name list given to delete (nargs='+': at least one name).
MaxNames == 3

\* ------------------------------------------------------- input universes

Names == {"k1", "k2"}
KeyTypes == {"ssh", "x509"}
ApiVersions == {"2.1", "2.2", "2.9", "2.10"}
UserArgs == {"alice", "ghost"}
ProjectArgs == {"proj", "empty", "nope"}
PublicKeyPath == "id.pub"
PrivateKeyPath == "id.key"
\* what reading the public key file can give: its text (possibly empty), or
\* an IOError
FileTexts == {"", "ssh-rsa AAAA"}
IOErrorCause == "[Errno 2] No such file or directory"
IOErrorWrite == "[Errno 13] Permission denied"

\* the identity of the caller (the token's user)
Me == "uid-me"

\* ------------------------------------------------------------ API versions

\* novaclient.api_versions.APIVersion(str): "X.Y" parsed into (major, minor).
APIVersion(s) ==
    CASE s = "2.1" -> <<2, 1>>
      [] s = "2.2" -> <<2, 2>>
      [] s = "2.9" -> <<2, 9>>
      [] s = "2.10" -> <<2, 10>>
      [] s = "2.11" -> <<2, 11>>

\* APIVersion.__lt__: (major, minor) compared as a pair of integers.
VersionLT(a, b) == a[1] < b[1] \/ (a[1] = b[1] /\ a[2] < b[2])

\* APIVersion.__ge__
VersionGE(a, b) == ~VersionLT(a, b)

\* ---------------------------------------------------------------- identity

\* identity_common.find_user(identity_client, user, user_domain): the user
\* found, or a failure.
find_user(name_or_id, domain) ==
    IF name_or_id = "alice"
    THEN [ok |-> TRUE, id |-> "uid-alice"]
    ELSE [ok |-> FALSE, id |-> None]

\* identity_common.find_project(identity_client, project, project_domain)
find_project(name_or_id, domain) ==
    CASE name_or_id = "proj" -> [ok |-> TRUE, id |-> "pid-proj"]
      [] name_or_id = "empty" -> [ok |-> TRUE, id |-> "pid-empty"]
      [] OTHER -> [ok |-> FALSE, id |-> None]

\* identity_client.users.list(tenant_id=project): the member users, in the
\* order the identity service returns them.
users_list(tenant_id) ==
    IF tenant_id = "pid-proj" THEN <<"uid-alice", "uid-me">> ELSE <<>>

\* ------------------------------------------------------------ call records

Call(op, args, kwargs, raised) ==
    [op |-> op, args |-> args, kwargs |-> kwargs, raised |-> raised]

NoKwargs == <<>>

IdentityOps == {"find_user", "find_project", "users.list"}
ComputeOps == {"keypairs.create", "keypairs.delete", "keypairs.list",
               "find_resource"}

\* ------------------------------------------------------------ how it ended

Return(value) == [kind |-> "return", exc |-> None, msg |-> <<>>, value |-> value]
Raise(exc, msg) == [kind |-> "raise", exc |-> exc, msg |-> msg, value |-> None]

\* the state a command works on and leaves behind
Begin(s) ==
    [store |-> s, calls |-> <<>>, stdout |-> <<>>, written |-> <<>>,
     logged |-> <<>>, outcome |-> Return(None)]

\* ------------------------------------------------- compute keypair service

\* Text the service generates for a new keypair of the given name.
PrivateKeyOf(name) == IF name = "k1" THEN "PRIVATE-k1" ELSE "PRIVATE-k2"
GeneratedPublicKey == "ssh-rsa GENERATED"
FingerprintOf(pub) == IF pub = GeneratedPublicKey THEN "fp:gen" ELSE "fp:given"

\* The fields of a keypair as the service returns them (Resource._info):
\* `type` exists from API version 2.2; `private_key` only in the answer to
\* the create call that generated the key.
KeypairInfo(k, v, withPrivate) ==
    ("name" :> k.name) @@ ("fingerprint" :> FingerprintOf(k.public_key))
      @@ ("public_key" :> k.public_key) @@ ("user_id" :> k.user_id)
      @@ (IF VersionGE(APIVersion(v), APIVersion("2.2"))
          THEN ("type" :> k.type) ELSE <<>>)
      @@ (IF withPrivate THEN ("private_key" :> PrivateKeyOf(k.name)) ELSE <<>>)

\* The user a request is about: its user_id, or the caller.
ScopeOf(kwargs) ==
    IF "user_id" \in DOMAIN kwargs THEN kwargs["user_id"] ELSE Me

Held(s, user_id, name) == {k \in s : k.user_id = user_id /\ k.name = name}

\* keypairs.create(name, public_key=None, key_type=..., user_id=...): a
\* falsy public_key is left out of the request and the service generates
\* the pair; a name the owner already holds is refused.
keypairs_create(s, kwargs, v) ==
    LET owner == ScopeOf(kwargs)
        generated == kwargs["public_key"] \in {None, ""}
        k == [user_id |-> owner,
              name |-> kwargs["name"],
              type |-> IF "key_type" \in DOMAIN kwargs
                       THEN kwargs["key_type"] ELSE "ssh",
              public_key |-> IF generated THEN GeneratedPublicKey
                             ELSE kwargs["public_key"]]
    IN  IF Held(s, owner, kwargs["name"]) # {}
        THEN [ok |-> FALSE, store |-> s, info |-> <<>>]
        ELSE [ok |-> TRUE, store |-> s \cup {k},
              info |-> KeypairInfo(k, v, generated)]

\* keypairs.get(name, user_id=...): the keypair of that name in the scope.
keypairs_get(s, name, kwargs, v) ==
    LET found == Held(s, ScopeOf(kwargs), name)
    IN  IF found = {} THEN [ok |-> FALSE, info |-> <<>>]
        ELSE [ok |-> TRUE,
              info |-> KeypairInfo(CHOOSE k \in found : TRUE, v, FALSE)]

\* keypairs.delete(name, user_id=...)
keypairs_delete(s, name, kwargs) ==
    LET found == Held(s, ScopeOf(kwargs), name)
    IN  [ok |-> found # {}, store |-> s \ found]

\* The service lists a user's keypairs ordered by name.
RECURSIVE ByName(_, _)
ByName(ks, names) ==
    IF names = <<>> THEN <<>>
    ELSE LET here == {k \in ks : k.name = Head(names)}
         IN  (IF here = {} THEN <<>> ELSE <<CHOOSE k \in here : TRUE>>)
             \o ByName(ks, Tail(names))

\* keypairs.list(user_id=...)
keypairs_list(s, kwargs, v) ==
    LET mine == ByName({k \in s : k.user_id = ScopeOf(kwargs)}, <<"k1", "k2">>)
    IN  [i \in 1..Len(mine) |-> KeypairInfo(mine[i], v, FALSE)]

\* osc_lib.utils.find_resource(manager, name_or_id, **kwargs): get by the
\* bare name first, then get with the kwargs, then find by name; a
\* CommandError when nothing is found.
find_resource(s, name_or_id, kwargs, v) ==
    LET bare == keypairs_get(s, name_or_id, NoKwargs, v)
        scoped == keypairs_get(s, name_or_id, kwargs, v)
    IN  IF bare.ok THEN bare
        ELSE IF DOMAIN kwargs # {} /\ scoped.ok THEN scoped
        ELSE [ok |-> FALSE, info |-> <<>>]

\* ------------------------------------------------------------------ helpers

\* Position of a dict key in sorted() order (Python compares the strings).
KeyRank(f) ==
    CASE f = "fingerprint" -> 1
      [] f = "name" -> 2
      [] f = "private_key" -> 3
      [] f = "public_key" -> 4
      [] f = "type" -> 5
      [] f = "user_id" -> 6

\* sorted(keys): repeatedly take the least key.
RECURSIVE SortedKeys(_)
SortedKeys(keys) ==
    IF keys = {} THEN <<>>
    ELSE LET least == CHOOSE f \in keys : \A g \in keys : KeyRank(f) <= KeyRank(g)
         IN  <<least>> \o SortedKeys(keys \ {least})

\* zip(*sorted(info.items())): the keys in sorted order, then their values.
ZipSorted(info) ==
    LET ks == SortedKeys(DOMAIN info)
    IN  <<ks, [i \in 1..Len(ks) |-> info[ks[i]]]>>

\* del info[key] for the keys given (those present)
Without(info, keys) == [f \in (DOMAIN info) \ keys |-> info[f]]

EmptyRecord == <<<<>>, <<>>>>

\* str(n) for the counts of a delete
Str(n) ==
    CASE n = 0 -> "0" [] n = 1 -> "1" [] n = 2 -> "2" [] n = 3 -> "3"
      [] n = 4 -> "4" [] n = 5 -> "5"

\* The version-gate message of the code, cut at the version and the option.
GateMsg(version, option) ==
    <<"--os-compute-api-version ", version,
      " or greater is required to support the ", option, " option">>

Contains(msg, piece) == \E i \in DOMAIN msg : msg[i] = piece

\* ------------------------------------------------------------ parsed args

\* argparse namespace; an option that was not given is None.  `name` is a
\* string for create and show and a list of names for delete.
Args(name, public_key, private_key, type, user, project) ==
    [name |-> name, public_key |-> public_key, private_key |-> private_key,
     type |-> type, user |-> user, user_domain |-> None,
     project |-> project, project_domain |-> None]

NoArgs == Args(None, None, None, None, None, None)

\* what the local filesystem does in an invocation: whether the public key
\* file can be read and what it holds, whether the private key file can be
\* written
Env(pub_readable, pub_text, write_ok) ==
    [pub_readable |-> pub_readable, pub_text |-> pub_text, write_ok |-> write_ok]

NoEnv == Env(TRUE, "", TRUE)

\* ------------------------------------------------------------------- create

\* keypair.py 82-92: read the public key file
CreateReadPublicKey(args, e) ==
    IF args.public_key # None
    THEN IF e.pub_readable
         THEN [ok |-> TRUE, public_key |-> e.pub_text, msg |-> <<>>]
         ELSE [ok |-> FALSE, public_key |-> None,
               msg |-> <<"Key file ", args.public_key, " not found: ",
                         IOErrorCause>>]
    ELSE [ok |-> TRUE, public_key |-> args.public_key, msg |-> <<>>]

\* keypair.py 98-104: the gate of --type; <<>> when it lets the command by
CreateTypeGate(args, v) ==
    IF args.type # None /\ VersionLT(APIVersion(v), APIVersion("2.2"))
    THEN GateMsg("2.2", "--type")
    ELSE <<>>

\* faulty variant: 2.10 taken for the number 2.1
CreateUserGate_AsNumber(args, v) ==
    IF args.user # None /\ VersionLT(APIVersion(v), APIVersion("2.1"))
    THEN GateMsg("2.10", "--user")
    ELSE <<>>

\* keypair.py 108-114: the gate of --user
CreateUserGate(args, v) ==
    IF args.user # None /\ VersionLT(APIVersion(v), APIVersion("2.10"))
    THEN GateMsg("2.10", "--user")
    ELSE <<>>

\* faulty variant: the user as given, not the ID it resolves to
CreateKwargs_UserAsGiven(args, public_key, user_id) ==
    ("name" :> args.name) @@ ("public_key" :> public_key)
      @@ (IF args.type # None THEN ("key_type" :> args.type) ELSE <<>>)
      @@ (IF args.user # None THEN ("user_id" :> args.user) ELSE <<>>)

\* keypair.py 94-97, 106, 116: the kwargs of keypairs.create
CreateKwargs(args, public_key, user_id) ==
    ("name" :> args.name) @@ ("public_key" :> public_key)
      @@ (IF args.type # None THEN ("key_type" :> args.type) ELSE <<>>)
      @@ (IF args.user # None THEN ("user_id" :> user_id) ELSE <<>>)

\* faulty variant: print() in place of sys.stdout.write()
CreateOutput_Print(args, public_key, info) ==
    IF (public_key # None /\ public_key # "") \/ args.private_key # None
    THEN [stdout |-> <<>>,
          value |-> ZipSorted(Without(info, {"public_key", "private_key"}))]
    ELSE [stdout |-> <<info["private_key"], "\n">>, value |-> EmptyRecord]

\* keypair.py 142-152: shape the result; [stdout, value]
CreateOutput(args, public_key, info) ==
    IF (public_key # None /\ public_key # "") \/ args.private_key # None
    THEN [stdout |-> <<>>,
          value |-> ZipSorted(Without(info, {"public_key", "private_key"}))]
    ELSE [stdout |-> <<info["private_key"]>>, value |-> EmptyRecord]

\* faulty variant: a failed write deletes the keypair again
CreateSavePrivateKey_RollsBack(r, args, e, info) ==
    IF args.private_key = None THEN r
    ELSE IF e.write_ok
    THEN [r EXCEPT !.written = Append(@, [path |-> args.private_key,
                                          text |-> info["private_key"]])]
    ELSE [r EXCEPT !.store = {k \in @ : ~(k.name = info["name"]
                                          /\ k.user_id = info["user_id"])},
                   !.calls = Append(@, Call("keypairs.delete",
                                            <<info["name"]>>, NoKwargs, FALSE)),
                   !.outcome =
              Raise("CommandError",
                    <<"Key file ", args.private_key, " can not be saved: ",
                      IOErrorWrite>>)]

\* keypair.py 124-138: save the private key; the state after it
CreateSavePrivateKey(r, args, e, info) ==
    IF args.private_key = None THEN r
    ELSE IF e.write_ok
    THEN [r EXCEPT !.written = Append(@, [path |-> args.private_key,
                                          text |-> info["private_key"]])]
    ELSE [r EXCEPT !.outcome =
              Raise("CommandError",
                    <<"Key file ", args.private_key, " can not be saved: ",
                      IOErrorWrite>>)]

\* faulty variant: the private key file is opened (and so emptied) before
\* the create request is made
CreateRequest_OpensFileFirst(r, args, v, e, public_key, user_id) ==
    LET kwargs == CreateKwargs(args, public_key, user_id)
        made == keypairs_create(r.store, kwargs, v)
        r1 == [r EXCEPT !.calls = Append(@, Call("keypairs.create", <<>>,
                                                 kwargs, ~made.ok)),
                        !.store = made.store]
        r2 == CreateSavePrivateKey(r1, args, e, made.info)
        out == CreateOutput(args, public_key, made.info)
    IN  IF ~made.ok
        THEN [r1 EXCEPT !.outcome = Raise("Conflict", <<>>),
                        !.written =
                            IF args.private_key # None /\ e.write_ok
                            THEN <<[path |-> args.private_key, text |-> ""]>>
                            ELSE <<>>]
        ELSE IF r2.outcome.kind = "raise" THEN r2
        ELSE [r2 EXCEPT !.stdout = @ \o out.stdout,
                        !.outcome = Return(out.value)]

\* keypair.py 122-152: the create request and what follows it
CreateRequest(r, args, v, e, public_key, user_id) ==
    LET kwargs == CreateKwargs(args, public_key, user_id)
        made == keypairs_create(r.store, kwargs, v)
        r1 == [r EXCEPT !.calls = Append(@, Call("keypairs.create", <<>>,
                                                 kwargs, ~made.ok)),
                        !.store = made.store]
        r2 == CreateSavePrivateKey(r1, args, e, made.info)
        out == CreateOutput(args, public_key, made.info)
    IN  IF ~made.ok THEN [r1 EXCEPT !.outcome = Raise("Conflict", <<>>)]
        ELSE IF r2.outcome.kind = "raise" THEN r2
        ELSE [r2 EXCEPT !.stdout = @ \o out.stdout,
                        !.outcome = Return(out.value)]

\* faulty variant: the user is resolved before the gate is checked
CreateResolveUser_ResolveFirst(r, args, v, e, public_key) ==
    LET gate == CreateUserGate(args, v)
        user == find_user(args.user, args.user_domain)
        r1 == [r EXCEPT !.calls = Append(@, Call("find_user",
                          <<args.user, args.user_domain>>, NoKwargs, ~user.ok))]
    IN  IF args.user = None
        THEN CreateRequest(r, args, v, e, public_key, None)
        ELSE IF ~user.ok
        THEN [r1 EXCEPT !.outcome = Raise("LookupError", <<args.user>>)]
        ELSE IF gate # <<>>
        THEN [r1 EXCEPT !.outcome = Raise("CommandError", gate)]
        ELSE CreateRequest(r1, args, v, e, public_key, user.id)

\* keypair.py 108-122: the gate of --user, the resolution of the user
CreateResolveUser(r, args, v, e, public_key) ==
    LET gate == CreateUserGate(args, v)
        user == find_user(args.user, args.user_domain)
        r1 == [r EXCEPT !.calls = Append(@, Call("find_user",
                          <<args.user, args.user_domain>>, NoKwargs, ~user.ok))]
    IN  IF args.user = None
        THEN CreateRequest(r, args, v, e, public_key, None)
        ELSE IF gate # <<>>
        THEN [r EXCEPT !.outcome = Raise("CommandError", gate)]
        ELSE IF ~user.ok
        THEN [r1 EXCEPT !.outcome = Raise("LookupError", <<args.user>>)]
        ELSE CreateRequest(r1, args, v, e, public_key, user.id)

\* faulty variant: the gate of --type is checked before the file is read
CreateKeypair_GateFirst(s, args, v, e) ==
    LET r == Begin(s)
        read == CreateReadPublicKey(args, e)
        gate == CreateTypeGate(args, v)
    IN  IF gate # <<>>
        THEN [r EXCEPT !.outcome = Raise("CommandError", gate)]
        ELSE IF ~read.ok
        THEN [r EXCEPT !.outcome = Raise("CommandError", read.msg)]
        ELSE CreateResolveUser(r, args, v, e, read.public_key)

\* CreateKeypair.take_action (keypair.py 78-152)
CreateKeypair(s, args, v, e) ==
    LET r == Begin(s)
        read == CreateReadPublicKey(args, e)
        gate == CreateTypeGate(args, v)
    IN  IF ~read.ok
        THEN [r EXCEPT !.outcome = Raise("CommandError", read.msg)]
        ELSE IF gate # <<>>
        THEN [r EXCEPT !.outcome = Raise("CommandError", gate)]
        ELSE CreateResolveUser(r, args, v, e, read.public_key)

\* ------------------------------------------------------------------- delete

\* keypair.py 184-190: the gate of --user
DeleteUserGate(args, v) ==
    IF args.user # None /\ VersionLT(APIVersion(v), APIVersion("2.10"))
    THEN GateMsg("2.10", "--user")
    ELSE <<>>

\* keypair.py 181, 192-196: the kwargs of keypairs.delete
DeleteKwargs(args, user_id) ==
    IF args.user # None THEN ("user_id" :> user_id) ELSE NoKwargs

\* keypair.py 200-201: the kwargs the lookup of a name is made with
DeleteLookupKwargs(kwargs) == NoKwargs

\* keypair.py 199-206: one name of the list; [r, failed]
DeleteOne(r, n, kwargs, v) ==
    LET lk == DeleteLookupKwargs(kwargs)
        data == find_resource(r.store, n, lk, v)
        r1 == [r EXCEPT !.calls = Append(@, Call("find_resource", <<n>>, lk,
                                                 ~data.ok))]
        gone == keypairs_delete(r1.store, data.info["name"], kwargs)
        r2 == [r1 EXCEPT !.calls = Append(@, Call("keypairs.delete",
                                    <<data.info["name"]>>, kwargs, ~gone.ok)),
                         !.store = gone.store]
    IN  IF ~data.ok
        THEN [r |-> [r1 EXCEPT !.logged = Append(@, n)], failed |-> TRUE]
        ELSE IF ~gone.ok
        THEN [r |-> [r2 EXCEPT !.logged = Append(@, n)], failed |-> TRUE]
        ELSE [r |-> r2, failed |-> FALSE]

\* faulty variant: the loop ends at the first name that fails
RECURSIVE DeleteLoop_StopsAtFailure(_, _, _, _, _)
DeleteLoop_StopsAtFailure(r, names, kwargs, v, result) ==
    IF names = <<>> THEN [r |-> r, result |-> result]
    ELSE LET one == DeleteOne(r, Head(names), kwargs, v)
         IN  IF one.failed THEN [r |-> one.r, result |-> result + 1]
             ELSE DeleteLoop_StopsAtFailure(one.r, Tail(names), kwargs, v,
                                            result)

\* keypair.py 198-206: the loop over the names; [r, result]
RECURSIVE DeleteLoop(_, _, _, _, _)
DeleteLoop(r, names, kwargs, v, result) ==
    IF names = <<>> THEN [r |-> r, result |-> result]
    ELSE LET one == DeleteOne(r, Head(names), kwargs, v)
         IN  DeleteLoop(one.r, Tail(names), kwargs, v,
                        IF one.failed THEN result + 1 ELSE result)

\* faulty variant: the failures are counted per name, not per list entry
DeleteFinish_PerName(r, result, total) ==
    IF result > 0
    THEN [r EXCEPT !.outcome =
              Raise("CommandError",
                    <<Str(Cardinality({r.logged[i] : i \in DOMAIN r.logged})),
                      " of ", Str(total), " keys failed to delete.">>)]
    ELSE [r EXCEPT !.outcome = Return(None)]

\* keypair.py 208-212: the end of the command
DeleteFinish(r, result, total) ==
    IF result > 0
    THEN [r EXCEPT !.outcome =
              Raise("CommandError",
                    <<Str(result), " of ", Str(total),
                      " keys failed to delete.">>)]
    ELSE [r EXCEPT !.outcome = Return(None)]

\* faulty variant: the user is resolved inside the try of the loop, so a
\* user that does not resolve fails every name
DeleteKeypair_ResolvesInLoop(s, args, v) ==
    LET r == Begin(s)
        gate == DeleteUserGate(args, v)
        user == find_user(args.user, args.user_domain)
        r1 == IF args.user = None THEN r
              ELSE [r EXCEPT !.calls = Append(@, Call("find_user",
                          <<args.user, args.user_domain>>, NoKwargs, ~user.ok))]
        done == DeleteLoop(r1, args.name, DeleteKwargs(args, user.id), v, 0)
    IN  IF gate # <<>>
        THEN [r EXCEPT !.outcome = Raise("CommandError", gate)]
        ELSE IF args.user # None /\ ~user.ok
        THEN DeleteFinish([r1 EXCEPT !.logged = args.name],
                          Len(args.name), Len(args.name))
        ELSE DeleteFinish(done.r, done.result, Len(args.name))

\* DeleteKeypair.take_action (keypair.py 177-212)
DeleteKeypair(s, args, v) ==
    LET r == Begin(s)
        gate == DeleteUserGate(args, v)
        user == find_user(args.user, args.user_domain)
        r1 == IF args.user = None THEN r
              ELSE [r EXCEPT !.calls = Append(@, Call("find_user",
                          <<args.user, args.user_domain>>, NoKwargs, ~user.ok))]
        done == DeleteLoop(r1, args.name, DeleteKwargs(args, user.id), v, 0)
    IN  IF gate # <<>>
        THEN [r EXCEPT !.outcome = Raise("CommandError", gate)]
        ELSE IF args.user # None /\ ~user.ok
        THEN [r1 EXCEPT !.outcome = Raise("LookupError", <<args.user>>)]
        ELSE DeleteFinish(done.r, done.result, Len(args.name))

\* --------------------------------------------------------------------- list

\* keypair.py 246-252: the gate of --project
ListProjectGate(args, v) ==
    IF args.project # None /\ VersionLT(APIVersion(v), APIVersion("2.10"))
    THEN GateMsg("2.10", "--project")
    ELSE <<>>

\* keypair.py 267-273: the gate of --user
ListUserGate(args, v) ==
    IF args.user # None /\ VersionLT(APIVersion(v), APIVersion("2.10"))
    THEN GateMsg("2.10", "--user")
    ELSE <<>>

\* faulty variant: a keypair already listed is not listed again
RECURSIVE ListUsers_NoRepeat(_, _, _, _)
ListUsers_NoRepeat(r, users, v, data) ==
    IF users = <<>> THEN [r |-> r, data |-> data]
    ELSE LET kw == ("user_id" :> Head(users))
             got == keypairs_list(r.store, kw, v)
             seen(k) == \E i \in DOMAIN data :
                            /\ data[i]["name"] = k["name"]
                            /\ data[i]["fingerprint"] = k["fingerprint"]
             IsNew(k) == ~seen(k)
         IN  ListUsers_NoRepeat(
                       [r EXCEPT !.calls = Append(@, Call("keypairs.list",
                                                  <<>>, kw, FALSE))],
                       Tail(users), v, data \o SelectSeq(got, IsNew))

\* keypair.py 264-266: the keypairs of each user in turn; [r, data]
RECURSIVE ListUsers(_, _, _, _)
ListUsers(r, users, v, data) ==
    IF users = <<>> THEN [r |-> r, data |-> data]
    ELSE LET kw == ("user_id" :> Head(users))
             got == keypairs_list(r.store, kw, v)
         IN  ListUsers([r EXCEPT !.calls = Append(@, Call("keypairs.list",
                                                  <<>>, kw, FALSE))],
                       Tail(users), v, data \o got)

\* faulty variant: the Type column whatever the API version
ListColumns_AlwaysType(v) == <<"Name", "Fingerprint", "Type">>

\* keypair.py 285-291: the columns
ListColumns(v) ==
    <<"Name", "Fingerprint">>
      \o (IF VersionGE(APIVersion(v), APIVersion("2.2"))
          THEN <<"Type">> ELSE <<>>)

\* osc_lib.utils.get_item_properties: a column names the attribute
\* column.lower(); an attribute the item lacks gives ''.
ColumnAttr(column) ==
    CASE column = "Name" -> "name"
      [] column = "Fingerprint" -> "fingerprint"
      [] column = "Type" -> "type"

get_item_properties(item, columns) ==
    [i \in 1..Len(columns) |->
        IF ColumnAttr(columns[i]) \in DOMAIN item
        THEN item[ColumnAttr(columns[i])] ELSE ""]

\* keypair.py 285-296: the result of list
ListResult(r, data, v) ==
    LET columns == ListColumns(v)
    IN  [r EXCEPT !.outcome =
            Return(<<columns,
                     [i \in 1..Len(data) |->
                         get_item_properties(data[i], columns)]>>)]

\* keypair.py 246-266: --project
ListByProject(r, args, v) ==
    LET gate == ListProjectGate(args, v)
        project == find_project(args.project, args.project_domain)
        r1 == [r EXCEPT !.calls = Append(@, Call("find_project",
                   <<args.project, args.project_domain>>, NoKwargs,
                   ~project.ok))]
        users == users_list(project.id)
        r2 == [r1 EXCEPT !.calls = Append(@, Call("users.list", <<>>,
                   ("tenant_id" :> project.id), FALSE))]
        all == ListUsers(r2, users, v, <<>>)
    IN  IF gate # <<>>
        THEN [r EXCEPT !.outcome = Raise("CommandError", gate)]
        ELSE IF ~project.ok
        THEN [r1 EXCEPT !.outcome = Raise("LookupError", <<args.project>>)]
        ELSE ListResult(all.r, all.data, v)

\* keypair.py 267-281: --user
ListByUser(r, args, v) ==
    LET gate == ListUserGate(args, v)
        user == find_user(args.user, args.user_domain)
        r1 == [r EXCEPT !.calls = Append(@, Call("find_user",
                          <<args.user, args.user_domain>>, NoKwargs, ~user.ok))]
        kw == ("user_id" :> user.id)
        r2 == [r1 EXCEPT !.calls = Append(@, Call("keypairs.list", <<>>, kw,
                                                  FALSE))]
    IN  IF gate # <<>>
        THEN [r EXCEPT !.outcome = Raise("CommandError", gate)]
        ELSE IF ~user.ok
        THEN [r1 EXCEPT !.outcome = Raise("LookupError", <<args.user>>)]
        ELSE ListResult(r2, keypairs_list(r.store, kw, v), v)

\* ListKeypair.take_action (keypair.py 242-296)
ListKeypair(s, args, v) ==
    LET r == Begin(s)
        r1 == [r EXCEPT !.calls = Append(@, Call("keypairs.list", <<>>,
                                                 NoKwargs, FALSE))]
    IN  IF args.project # None THEN ListByProject(r, args, v)
        ELSE IF args.user # None THEN ListByUser(r, args, v)
        ELSE ListResult(r1, keypairs_list(r.store, NoKwargs, v), v)

\* --------------------------------------------------------------------- show

\* keypair.py 332-338: the gate of --user
ShowUserGate(args, v) ==
    IF args.user # None /\ VersionLT(APIVersion(v), APIVersion("2.10"))
    THEN GateMsg("2.10", "--user")
    ELSE <<>>

\* keypair.py 330, 340-344: the kwargs of the lookup
ShowKwargs(args, user_id) ==
    IF args.user # None THEN ("user_id" :> user_id) ELSE NoKwargs

\* faulty variant: public_key is left in the record
ShowOutput_KeepsPublicKey(args, info) ==
    IF ~args.public_key
    THEN [stdout |-> <<>>, value |-> ZipSorted(info)]
    ELSE [stdout |-> <<info["public_key"]>>, value |-> EmptyRecord]

\* faulty variant: print() in place of sys.stdout.write()
ShowOutput_Print(args, info) ==
    IF ~args.public_key
    THEN [stdout |-> <<>>, value |-> ZipSorted(Without(info, {"public_key"}))]
    ELSE [stdout |-> <<info["public_key"], "\n">>, value |-> EmptyRecord]

\* keypair.py 349-358: shape the result; [stdout, value]
ShowOutput(args, info) ==
    IF ~args.public_key
    THEN [stdout |-> <<>>, value |-> ZipSorted(Without(info, {"public_key"}))]
    ELSE [stdout |-> <<info["public_key"]>>, value |-> EmptyRecord]

\* faulty variant: --public-key saves the key to a file, as --private-key
\* of create does
ShowKeypair_SavesKey(s, args, v) ==
    LET r == Begin(s)
        gate == ShowUserGate(args, v)
        user == find_user(args.user, args.user_domain)
        r1 == IF args.user = None THEN r
              ELSE [r EXCEPT !.calls = Append(@, Call("find_user",
                          <<args.user, args.user_domain>>, NoKwargs, ~user.ok))]
        kwargs == ShowKwargs(args, user.id)
        keypair == find_resource(r.store, args.name, kwargs, v)
        r2 == [r1 EXCEPT !.calls = Append(@, Call("find_resource",
                             <<args.name>>, kwargs, ~keypair.ok))]
        out == ShowOutput(args, keypair.info)
    IN  IF gate # <<>>
        THEN [r EXCEPT !.outcome = Raise("CommandError", gate)]
        ELSE IF args.user # None /\ ~user.ok
        THEN [r1 EXCEPT !.outcome = Raise("LookupError", <<args.user>>)]
        ELSE IF ~keypair.ok
        THEN [r2 EXCEPT !.outcome =
                 Raise("CommandError",
                       <<"No keypair with a name or ID of '", args.name,
                         "' exists.">>)]
        ELSE [r2 EXCEPT !.written =
                            IF args.public_key
                            THEN <<[path |-> PublicKeyPath,
                                    text |-> keypair.info["public_key"]]>>
                            ELSE <<>>,
                        !.stdout = out.stdout, !.outcome = Return(out.value)]

\* ShowKeypair.take_action (keypair.py 326-358)
ShowKeypair(s, args, v) ==
    LET r == Begin(s)
        gate == ShowUserGate(args, v)
        user == find_user(args.user, args.user_domain)
        r1 == IF args.user = None THEN r
              ELSE [r EXCEPT !.calls = Append(@, Call("find_user",
                          <<args.user, args.user_domain>>, NoKwargs, ~user.ok))]
        kwargs == ShowKwargs(args, user.id)
        keypair == find_resource(r.store, args.name, kwargs, v)
        r2 == [r1 EXCEPT !.calls = Append(@, Call("find_resource",
                             <<args.name>>, kwargs, ~keypair.ok))]
        out == ShowOutput(args, keypair.info)
    IN  IF gate # <<>>
        THEN [r EXCEPT !.outcome = Raise("CommandError", gate)]
        ELSE IF args.user # None /\ ~user.ok
        THEN [r1 EXCEPT !.outcome = Raise("LookupError", <<args.user>>)]
        ELSE IF ~keypair.ok
        THEN [r2 EXCEPT !.outcome =
                 Raise("CommandError",
                       <<"No keypair with a name or ID of '", args.name,
                         "' exists.">>)]
        ELSE [r2 EXCEPT !.stdout = out.stdout, !.outcome = Return(out.value)]

\* ------------------------------------------------------------ the program

\* name lists of delete: 1..MaxNames names, repetitions allowed
NameLists == UNION {[1..n -> Names] : n \in 1..MaxNames}

OptUser == {None} \cup UserArgs

\* what create can be called with: --public-key and --private-key exclude
\* each other (a parser-level group)
CreateArgs ==
    {Args(n, pub, priv, ty, u, None) :
        n \in Names, pub \in {None, PublicKeyPath},
        priv \in {None, PrivateKeyPath}, ty \in {None} \cup KeyTypes,
        u \in OptUser}
    \ {a \in [name : Names, public_key : {PublicKeyPath},
              private_key : {PrivateKeyPath}, type : {None} \cup KeyTypes,
              user : OptUser, user_domain : {None}, project : {None},
              project_domain : {None}] : TRUE}

\* the filesystem behaviours that matter to a create with these arguments
CreateEnvs(args) ==
    IF args.public_key # None
    THEN {Env(TRUE, text, TRUE) : text \in FileTexts} \cup {Env(FALSE, "", TRUE)}
    ELSE IF args.private_key # None
    THEN {Env(TRUE, "", ok) : ok \in BOOLEAN}
    ELSE {NoEnv}

DeleteArgs == {Args(ns, None, None, None, u, None) : ns \in NameLists, u \in OptUser}

\* --user and --project exclude each other (a parser-level group)
ListArgs ==
    {Args(None, None, None, None, u, None) : u \in OptUser}
    \cup {Args(None, None, None, None, None, p) : p \in ProjectArgs}

\* for show, public_key is the store_true flag --public-key
ShowArgs == {Args(n, flag, None, None, u, None) :
                n \in Names, flag \in BOOLEAN, u \in OptUser}

Finish(c, args, v, e, res) ==
  \E r \in {res} :
    /\ cmd = "none"
    /\ cmd' = c
    /\ parsed_args' = args
    /\ api_version' = v
    /\ env' = e
    /\ store0' = store
    /\ store' = r.store
    /\ calls' = r.calls
    /\ stdout' = r.stdout
    /\ written' = r.written
    /\ logged' = r.logged
    /\ outcome' = r.outcome

Init ==
    /\ store = {}
    /\ store0 = {}
    /\ cmd = "none"
    /\ parsed_args = NoArgs
    /\ api_version = "2.1"
    /\ env = NoEnv
    /\ calls = <<>>
    /\ stdout = <<>>
    /\ written = <<>>
    /\ logged = <<>>
    /\ outcome = Return(None)

Create ==
    /\ cmd = "none"
    /\ \E args \in CreateArgs, v \in ApiVersions :
        \E e \in CreateEnvs(args) :
            Finish("create", args, v, e, CreateKeypair(store, args, v, e))

Delete ==
    /\ cmd = "none"
    /\ \E args \in DeleteArgs, v \in ApiVersions :
        Finish("delete", args, v, NoEnv, DeleteKeypair(store, args, v))

List ==
    /\ cmd = "none"
    /\ \E args \in ListArgs, v \in ApiVersions :
        Finish("list", args, v, NoEnv, ListKeypair(store, args, v))

Show ==
    /\ cmd = "none"
    /\ \E args \in ShowArgs, v \in ApiVersions :
        Finish("show", args, v, NoEnv, ShowKeypair(store, args, v))

\* the client process ends; the service keeps its keypairs
Exit ==
    /\ cmd # "none"
    /\ cmd' = "none"
    /\ parsed_args' = NoArgs
    /\ api_version' = "2.1"
    /\ env' = NoEnv
    /\ store0' = store
    /\ calls' = <<>>
    /\ stdout' = <<>>
    /\ written' = <<>>
    /\ logged' = <<>>
    /\ outcome' = Return(None)
    /\ UNCHANGED store

Next == Create \/ Delete \/ List \/ Show \/ Exit

Spec == Init /\ [][Next]_vars

\* =================================================================== claims

Returned == outcome.kind = "return"
Raised(exc) == outcome.kind = "raise" /\ outcome.exc = exc

\* The gated options of each command and their minimum versions.
GatedOptions ==
    CASE cmd = "create" -> {"--type", "--user"}
      [] cmd = "list" -> {"--user", "--project"}
      [] cmd \in {"delete", "show"} -> {"--user"}
      [] OTHER -> {}

MinimumOf(option) == IF option = "--type" THEN "2.2" ELSE "2.10"

Supplied(option) ==
    CASE option = "--type" -> parsed_args.type # None
      [] option = "--user" -> parsed_args.user # None
      [] option = "--project" -> parsed_args.project # None

Below(option) ==
    VersionLT(APIVersion(api_version), APIVersion(MinimumOf(option)))

\* the supplied gated options whose minimum the API version is below
Failing == {o \in GatedOptions : Supplied(o) /\ Below(o)}

\* the command failed with the version error of this option
GateError(option) ==
    /\ Raised("CommandError")
    /\ Contains(outcome.msg, MinimumOf(option))
    /\ Contains(outcome.msg, option)

\* create read its public key file, or had none to read
PublicKeyRead ==
    cmd = "create" /\ parsed_args.public_key # None => env.pub_readable

\* C1 as stated: every supplied gated option that is below its minimum
\* makes the command fail with a CommandError naming that minimum and that
\* option, and an option at or above its minimum is let by.
C1_EveryGatedOption ==
    \A o \in GatedOptions :
        Supplied(o) => (Below(o) <=> GateError(o))

\* C1 amended: a supplied gated option below its minimum always makes the
\* command fail with a CommandError; the message names the minimum and the
\* option of the first gate that fails in the order the code checks them
\* (--type before --user in create), unless create could not read its
\* public key file, which it does before any gate; a gate whose option is
\* at or above its minimum is never the one reported.
C1_FirstFailingGate ==
    LET first == IF "--type" \in Failing THEN "--type"
                 ELSE CHOOSE o \in Failing : TRUE
    IN  /\ Failing # {} => Raised("CommandError")
        /\ Failing # {} /\ PublicKeyRead => GateError(first)
        /\ \A o \in GatedOptions : Supplied(o) /\ ~Below(o) => ~GateError(o)

\* create with --type and --user at 2.9: --type passes, --user is refused
C1_Witness ==
    /\ cmd = "create"
    /\ parsed_args.type # None /\ parsed_args.user # None
    /\ api_version = "2.9"
    /\ GateError("--user")
    /\ ~GateError("--type")

\* C2: when a version gate fails, the invocation makes no call to the
\* compute service or to the identity service, whatever else was given.
C2_GateFailureNoRemoteCall ==
    Failing # {} =>
        /\ calls = <<>>
        /\ store = store0

\* create --user at 2.9 with --type given and passed: refused, nothing called
C2_Witness ==
    /\ cmd = "create"
    /\ parsed_args.type # None
    /\ GateError("--user")
    /\ calls = <<>>

\* delete got past its gate and the resolution of --user: the loop ran
DeleteProceeds ==
    /\ cmd = "delete"
    /\ Failing = {}
    /\ parsed_args.user # None =>
           find_user(parsed_args.user, parsed_args.user_domain).ok

\* the calls of the delete loop that raised: one per failed list entry
FailedCalls ==
    {i \in DOMAIN calls :
        calls[i].op \in {"find_resource", "keypairs.delete"} /\ calls[i].raised}

\* C3: after the whole list, delete fails with "<failures> of <total> keys
\* failed to delete." exactly when an entry failed, <failures> counting the
\* entries whose lookup or delete raised (per occurrence) and <total> the
\* length of the list; otherwise it returns None.
C3_AggregateOutcome ==
    DeleteProceeds =>
        LET failures == Cardinality(FailedCalls)
            total == Len(parsed_args.name)
        IN  IF failures > 0
            THEN /\ Raised("CommandError")
                 /\ outcome.msg = <<Str(failures), " of ", Str(total),
                                    " keys failed to delete.">>
            ELSE outcome = Return(None)

\* a name given twice: the first occurrence is deleted, the second fails
C3_Witness ==
    /\ DeleteProceeds
    /\ Len(parsed_args.name) = 2
    /\ parsed_args.name[1] = parsed_args.name[2]
    /\ store # store0
    /\ outcome.msg = <<"1", " of ", "2", " keys failed to delete.">>

IsLookup(c) == c.op = "find_resource"

\* C4: every entry of the list is looked up once, in input order, whatever
\* failed before it; a delete request follows each lookup that succeeded,
\* for that entry, and no other delete request is made.
C4_ContinuesPastFailures ==
    DeleteProceeds =>
        LET lookups == SelectSeq(calls, IsLookup)
        IN  /\ Len(lookups) = Len(parsed_args.name)
            /\ \A i \in DOMAIN lookups :
                   lookups[i].args = <<parsed_args.name[i]>>
            /\ \A j \in DOMAIN calls :
                   calls[j].op = "find_resource" =>
                       (~calls[j].raised <=>
                            /\ j + 1 \in DOMAIN calls
                            /\ calls[j + 1].op = "keypairs.delete"
                            /\ calls[j + 1].args = calls[j].args)
            /\ \A j \in DOMAIN calls :
                   calls[j].op = "keypairs.delete" =>
                       /\ j > 1
                       /\ calls[j - 1].op = "find_resource"
                       /\ ~calls[j - 1].raised

\* the first entry fails, a later one is still deleted
C4_Witness ==
    /\ DeleteProceeds
    /\ Len(calls) >= 3
    /\ calls[1].op = "find_resource" /\ calls[1].raised
    /\ calls[Len(calls)].op = "keypairs.delete" /\ ~calls[Len(calls)].raised
    /\ store # store0

\* C5: delete --user U of one name N that U holds, at 2.10 or above: a
\* delete request for N with user_id=U is made and the command succeeds,
\* whether or not the caller holds a keypair named N; without --user no
\* delete request carries a user_id.
C5_DeleteForUser ==
    /\ ( /\ DeleteProceeds
         /\ parsed_args.user # None
         /\ Len(parsed_args.name) = 1
         /\ Held(store0,
                 find_user(parsed_args.user, parsed_args.user_domain).id,
                 parsed_args.name[1]) # {} )
       => /\ \E i \in DOMAIN calls :
                /\ calls[i].op = "keypairs.delete"
                /\ calls[i].args = <<parsed_args.name[1]>>
                /\ calls[i].kwargs = ("user_id" :>
                     find_user(parsed_args.user, parsed_args.user_domain).id)
          /\ outcome = Return(None)
    /\ (cmd = "delete" /\ parsed_args.user = None)
       => \A i \in DOMAIN calls :
              calls[i].op = "keypairs.delete" => DOMAIN calls[i].kwargs = {}

\* value is the record of info: its keys in increasing order, then their
\* values
IsSortedRecord(value, info) ==
    /\ Len(value) = 2
    /\ Len(value[1]) = Cardinality(DOMAIN info)
    /\ Len(value[2]) = Len(value[1])
    /\ {value[1][i] : i \in DOMAIN value[1]} = DOMAIN info
    /\ \A i, j \in DOMAIN value[1] :
           i < j => KeyRank(value[1][i]) < KeyRank(value[1][j])
    /\ \A i \in DOMAIN value[1] : value[2][i] = info[value[1][i]]

\* the keypair a successful create added to the service
Created == CHOOSE k \in store \ store0 : TRUE

\* C6: a create that succeeds with --public-key (whatever the file holds)
\* or --private-key returns the record of the keypair's fields without
\* public_key and private_key, ordered by field name, and writes nothing to
\* stdout.
C6_RecordWhenKeyGiven ==
    ( /\ cmd = "create"
      /\ Returned
      /\ parsed_args.public_key # None \/ parsed_args.private_key # None )
    => /\ IsSortedRecord(outcome.value,
                         Without(KeypairInfo(Created, api_version, FALSE),
                                 {"public_key"}))
       /\ stdout = <<>>

\* C7: a create that succeeds with neither --public-key nor --private-key
\* writes the private key the service returned to stdout, once and
\* unchanged, and returns the empty record.
C7_PrivateKeyToStdout ==
    ( /\ cmd = "create"
      /\ Returned
      /\ parsed_args.public_key = None
      /\ parsed_args.private_key = None )
    => /\ stdout = <<PrivateKeyOf(parsed_args.name)>>
       /\ outcome.value = EmptyRecord

\* with --user and --type given
C7_Witness ==
    /\ cmd = "create"
    /\ Returned
    /\ parsed_args.public_key = None /\ parsed_args.private_key = None
    /\ parsed_args.user # None /\ parsed_args.type # None
    /\ stdout = <<PrivateKeyOf(parsed_args.name)>>
    /\ store # store0

IsCreate(c) == c.op = "keypairs.create"

\* C8: create makes at most one create request (one when it succeeds); the
\* request carries name and public_key, public_key being the text of the
\* public key file when --public-key is given and None otherwise, key_type
\* exactly when --type is given, user_id exactly when --user is given (the
\* ID the identity service resolved), and nothing else.
C8_CreateRequest ==
    cmd = "create" =>
        LET creates == SelectSeq(calls, IsCreate)
        IN  /\ Len(creates) <= 1
            /\ Returned => Len(creates) = 1
            /\ \A i \in DOMAIN creates :
                 LET kw == creates[i].kwargs
                 IN  /\ DOMAIN kw =
                            {"name", "public_key"}
                            \cup (IF parsed_args.type # None
                                  THEN {"key_type"} ELSE {})
                            \cup (IF parsed_args.user # None
                                  THEN {"user_id"} ELSE {})
                     /\ kw["name"] = parsed_args.name
                     /\ kw["public_key"] =
                            IF parsed_args.public_key # None
                            THEN env.pub_text ELSE None
                     /\ parsed_args.type # None =>
                            kw["key_type"] = parsed_args.type
                     /\ parsed_args.user # None =>
                            kw["user_id"] = find_user(parsed_args.user,
                                               parsed_args.user_domain).id

\* a request with all four fields and the text of the file
C8_Witness ==
    /\ cmd = "create"
    /\ Returned
    /\ Len(calls) = 2
    /\ calls[2].op = "keypairs.create"
    /\ DOMAIN calls[2].kwargs = {"name", "public_key", "key_type", "user_id"}
    /\ calls[2].kwargs["public_key"] = "ssh-rsa AAAA"

\* the create request of the invocation succeeded
CreateSucceeded ==
    /\ cmd = "create"
    /\ \E i \in DOMAIN calls : calls[i].op = "keypairs.create" /\ ~calls[i].raised

\* C9: create with --private-key writes the private key the service
\* returned to that path, unchanged, after the create request succeeded;
\* when the write fails, create ends with an error naming the path, the
\* keypair stays in the service (no delete or other request follows the
\* create request), and the private key is not written to stdout.
C9_PrivateKeyFile ==
    (CreateSucceeded /\ parsed_args.private_key # None) =>
        IF env.write_ok
        THEN /\ Returned
             /\ written = <<[path |-> parsed_args.private_key,
                             text |-> PrivateKeyOf(parsed_args.name)]>>
             /\ stdout = <<>>
        ELSE /\ Raised("CommandError")
             /\ Contains(outcome.msg, parsed_args.private_key)
             /\ written = <<>>
             /\ stdout = <<>>
             /\ calls[Len(calls)].op = "keypairs.create"
             /\ store0 \subseteq store
             /\ Held(store, ScopeOf(calls[Len(calls)].kwargs),
                     parsed_args.name) # {}
             /\ Held(store0, ScopeOf(calls[Len(calls)].kwargs),
                     parsed_args.name) = {}

\* the write failed after the keypair was created
C9_Witness ==
    /\ CreateSucceeded
    /\ parsed_args.private_key # None
    /\ ~env.write_ok
    /\ Raised("CommandError")
    /\ store # store0

\* C10: create with a public key file that cannot be read fails with an
\* error naming the path and the cause before any remote call: no identity
\* resolution, no create request, no keypair created, whatever --type,
\* --user and API version come with it.
C10_UnreadablePublicKey ==
    ( /\ cmd = "create"
      /\ parsed_args.public_key # None
      /\ ~env.pub_readable )
    => /\ Raised("CommandError")
       /\ Contains(outcome.msg, parsed_args.public_key)
       /\ Contains(outcome.msg, IOErrorCause)
       /\ calls = <<>>
       /\ store = store0

\* with --type and --user given at an API version below both minimums
C10_Witness ==
    /\ cmd = "create"
    /\ parsed_args.public_key # None
    /\ ~env.pub_readable
    /\ parsed_args.type # None /\ parsed_args.user # None
    /\ api_version = "2.1"
    /\ Raised("CommandError")
    /\ Contains(outcome.msg, IOErrorCause)

\* list got past its gates and resolved the project it was given
ListByProjectProceeds ==
    /\ cmd = "list"
    /\ parsed_args.project # None
    /\ Failing = {}
    /\ find_project(parsed_args.project, parsed_args.project_domain).ok

\* the member users of the project given to list
Members ==
    users_list(find_project(parsed_args.project,
                            parsed_args.project_domain).id)

\* the row of a keypair under the columns of the API version
RowOf(k) ==
    <<k.name, FingerprintOf(k.public_key)>>
      \o (IF Below("--type") THEN <<>> ELSE <<k.type>>)

\* list(user_id=U1) followed by ... list(user_id=Un), as rows
RECURSIVE RowsOfUsers(_)
RowsOfUsers(users) ==
    IF users = <<>> THEN <<>>
    ELSE LET own == keypairs_list(store0, ("user_id" :> Head(users)),
                                  api_version)
         IN  [i \in 1..Len(own) |->
                 get_item_properties(own[i], outcome.value[1])]
             \o RowsOfUsers(Tail(users))

IsList(c) == c.op = "keypairs.list"

\* C11: list --project makes one keypairs.list call per member user, in
\* the order the users were returned, and its rows are the users' listings
\* one after the other, nothing removed and nothing reordered; a project
\* without member users gives no rows.
C11_ProjectConcatenation ==
    ListByProjectProceeds =>
        LET lists == SelectSeq(calls, IsList)
        IN  /\ Returned
            /\ Len(lists) = Len(Members)
            /\ \A i \in DOMAIN lists :
                   lists[i].kwargs = ("user_id" :> Members[i])
            /\ outcome.value[2] = RowsOfUsers(Members)
            /\ Members = <<>> => outcome.value[2] = <<>>

\* two member users holding keypairs whose rows are equal: both rows stay,
\* in the order of the users
C11_Witness ==
    /\ ListByProjectProceeds
    /\ Len(Members) = 2
    /\ Len(outcome.value[2]) = 3
    /\ outcome.value[2][1] = outcome.value[2][3]
    /\ outcome.value[2][1] # outcome.value[2][2]

\* C12: a list that succeeds returns the columns (Name, Fingerprint) below
\* API version 2.2 and (Name, Fingerprint, Type) from 2.2, whatever the
\* filter, and every row holds one value per column, in column order: the
\* name, the fingerprint and (from 2.2) the type of a keypair of the
\* service.
C12_ListColumns ==
    (cmd = "list" /\ Returned) =>
        /\ outcome.value[1] =
               IF VersionLT(APIVersion(api_version), APIVersion("2.2"))
               THEN <<"Name", "Fingerprint">>
               ELSE <<"Name", "Fingerprint", "Type">>
        /\ \A i \in DOMAIN outcome.value[2] :
               /\ Len(outcome.value[2][i]) = Len(outcome.value[1])
               /\ \E k \in store0 : outcome.value[2][i] = RowOf(k)

\* a list below 2.2 with a row of two values
C12_Witness ==
    /\ cmd = "list"
    /\ Returned
    /\ api_version = "2.1"
    /\ Len(outcome.value[2]) = 2
    /\ Len(outcome.value[2][1]) = 2

\* the ID the user given to the command resolves to
ResolvedUser == find_user(parsed_args.user, parsed_args.user_domain).id

\* show got past its gate and the resolution of --user
ShowProceeds ==
    /\ cmd = "show"
    /\ Failing = {}
    /\ parsed_args.user # None =>
           find_user(parsed_args.user, parsed_args.user_domain).ok

\* C13: show --user U of a name N, at 2.10 or above, fetches N with
\* user_id=U: it succeeds when U holds N, and what it returns is the
\* keypair N of U, not a keypair N of the caller; without --user the fetch
\* carries no user_id.
C13_ShowForUser ==
    /\ (ShowProceeds /\ parsed_args.user # None) =>
          /\ calls[Len(calls)].op = "find_resource"
          /\ calls[Len(calls)].kwargs = ("user_id" :> ResolvedUser)
          /\ Held(store0, ResolvedUser, parsed_args.name) # {} => Returned
          /\ Returned =>
                \E k \in Held(store0, ResolvedUser, parsed_args.name) :
                    IF parsed_args.public_key
                    THEN stdout = <<k.public_key>>
                    ELSE \E i \in DOMAIN outcome.value[1] :
                            /\ outcome.value[1][i] = "user_id"
                            /\ outcome.value[2][i] = ResolvedUser
    /\ (cmd = "show" /\ parsed_args.user = None) =>
          \A i \in DOMAIN calls :
              calls[i].op = "find_resource" => DOMAIN calls[i].kwargs = {}

\* the keypair the lookup of show gave
Fetched ==
    find_resource(store0, parsed_args.name, calls[Len(calls)].kwargs,
                  api_version).info

\* C14: a show without --public-key that fetched a keypair returns the
\* record of all its fields but public_key, ordered by field name, and
\* writes nothing to stdout.
C14_ShowRecord ==
    (cmd = "show" /\ Returned /\ ~parsed_args.public_key) =>
        /\ IsSortedRecord(outcome.value, Without(Fetched, {"public_key"}))
        /\ \A i \in DOMAIN outcome.value[1] :
               outcome.value[1][i] # "public_key"
        /\ {"fingerprint", "name", "user_id"}
               \subseteq {outcome.value[1][i] : i \in DOMAIN outcome.value[1]}
        /\ stdout = <<>>

\* a record with the type field, for a user's keypair
C14_Witness ==
    /\ cmd = "show"
    /\ Returned
    /\ ~parsed_args.public_key
    /\ parsed_args.user # None
    /\ outcome.value[1] = <<"fingerprint", "name", "type", "user_id">>
    /\ outcome.value[2][3] = "x509"

\* C15: a show with --public-key that fetched a keypair returns the empty
\* record and writes the keypair's public key to stdout, once and
\* unchanged; the calls it makes are those of the same show without
\* --public-key.
C15_ShowPublicKey ==
    (cmd = "show" /\ Returned /\ parsed_args.public_key) =>
        /\ outcome.value = EmptyRecord
        /\ stdout = <<Fetched["public_key"]>>
        /\ \E k \in store0 :
               k.name = parsed_args.name /\ stdout = <<k.public_key>>
        /\ calls = ShowKeypair(store0,
                               [parsed_args EXCEPT !.public_key = FALSE],
                               api_version).calls

\* the public key given at creation comes back
C15_Witness ==
    /\ cmd = "show"
    /\ Returned
    /\ parsed_args.public_key
    /\ stdout = <<"ssh-rsa AAAA">>
    /\ outcome.value = EmptyRecord

\* the command got to the resolution of the user or project it was given,
\* and the identity service does not resolve it
ResolutionFails ==
    /\ cmd # "none"
    /\ Failing = {}
    /\ PublicKeyRead
    /\ \/ /\ parsed_args.user # None
          /\ ~find_user(parsed_args.user, parsed_args.user_domain).ok
       \/ /\ parsed_args.project # None
          /\ ~find_project(parsed_args.project,
                           parsed_args.project_domain).ok

\* C16: when the user or the project given to a command does not resolve,
\* the command ends with the error of the resolution, as raised, and makes
\* no request to the compute keypair service; a delete of several names
\* attempts none of them and does not report the count of failures.
C16_ResolutionFailureAborts ==
    ResolutionFails =>
        /\ Raised("LookupError")
        /\ outcome.msg = <<IF parsed_args.user # None
                           THEN parsed_args.user ELSE parsed_args.project>>
        /\ Len(calls) = 1
        /\ calls[1].op \in {"find_user", "find_project"}
        /\ calls[1].raised
        /\ \A i \in DOMAIN calls : calls[i].op \notin ComputeOps
        /\ logged = <<>>
        /\ store = store0

\* a delete of two names for a user that does not resolve
C16_Witness ==
    /\ cmd = "delete"
    /\ ResolutionFails
    /\ Len(parsed_args.name) = 2
    /\ Raised("LookupError")
    /\ store0 # {}

\* the name lists that hold the entries of names in another order
Reorderings(names) ==
    {[i \in DOMAIN names |-> names[p[i]]] : p \in Permutations(DOMAIN names)}

\* C17: a delete of the same entries in any other order, against the same
\* store, ends the same way (same count of failures, same total) and
\* leaves the same keypairs in the service.
C17_OrderIndependence ==
    DeleteProceeds =>
        \A names \in Reorderings(parsed_args.name) :
            LET other == DeleteKeypair(store0,
                                       [parsed_args EXCEPT !.name = names],
                                       api_version)
            IN  /\ other.outcome = outcome
                /\ other.store = store

\* two different names and a repeated one, a deletion and a failure
C17_Witness ==
    /\ DeleteProceeds
    /\ Len(parsed_args.name) = 3
    /\ parsed_args.name[1] # parsed_args.name[2]
    /\ parsed_args.name[1] = parsed_args.name[3]
    /\ store # store0
    /\ outcome.msg = <<"2", " of ", "3", " keys failed to delete.">>

\* C18: create makes at most one create request, and only after the public
\* key file was read, every gate of a given option passed and the user
\* given was resolved (the resolution comes before the request); the
\* private key is written to its file or to stdout only when the create
\* request succeeded, so a create that failed leaves no file written and
\* nothing printed.
C18_CreateOrdering ==
    cmd = "create" =>
        /\ Len(SelectSeq(calls, IsCreate)) <= 1
        /\ \A i \in DOMAIN calls :
               calls[i].op = "keypairs.create" =>
                   /\ PublicKeyRead
                   /\ Failing = {}
                   /\ parsed_args.user # None =>
                          \E j \in 1..(i - 1) :
                              /\ calls[j].op = "find_user"
                              /\ ~calls[j].raised
        /\ (written # <<>> \/ stdout # <<>>) => CreateSucceeded
        /\ ~Returned => stdout = <<>>
        /\ ~(CreateSucceeded /\ env.write_ok) => written = <<>>

\* the service refuses a name the owner holds already: --private-key was
\* given and no file is written
C18_Witness ==
    /\ cmd = "create"
    /\ parsed_args.private_key # None
    /\ parsed_args.user # None
    /\ Raised("Conflict")
    /\ Len(calls) = 2
    /\ calls[2].op = "keypairs.create" /\ calls[2].raised
    /\ written = <<>>
    /\ stdout = <<>>

\* C19: list and show make no create and no delete request and write no
\* file, whatever their options and however they end: the service holds
\* the same keypairs after the command as before it.
C19_ReadOnly ==
    cmd \in {"list", "show"} =>
        /\ \A i \in DOMAIN calls :
               calls[i].op \notin {"keypairs.create", "keypairs.delete"}
        /\ written = <<>>
        /\ store = store0

\* a show with --public-key that succeeded against a service holding
\* keypairs: the key went to stdout and the store is as it was
C19_Witness ==
    /\ cmd = "show"
    /\ Returned
    /\ parsed_args.public_key
    /\ store0 # {}
    /\ store = store0
    /\ stdout # <<>>

====
